---- MODULE Spec2Model ----
(***************************************************************************)
(* EngineSwapChain (Core/GPU/Swapchain.cpp): construction of the           *)
(* presentable chain and its synchronisation objects, the per-frame        *)
(* acquire / submit / present protocol, and recreation from a previous     *)
(* instance.  The Vulkan objects the class talks to (fences, semaphores,   *)
(* the graphics queue, the presentation subsystem) are modelled as the     *)
(* environment of the class.                                               *)
(***************************************************************************)
EXTENDS Integers, Sequences, FiniteSets, TLC

(***************************************************************************)
(* Bounds of the model.                                                    *)
(***************************************************************************)
\* submitCommandBuffers calls that reach the present request, per instance
MaxSubmits == 3
\* constructions of a swapchain from a previous one
MaxRecreate == 1
\* images the presentation subsystem may create beyond the requested count:
\* in the construction specifications, and in the frame-protocol specification
MaxExtraImages == 1
MaxFrameExtraImages == 0
\* longest list of surface formats the device reports
MaxFormats == 3
\* largest minImageCount / maxImageCount the device reports
MaxMinImageCount == 4
MaxMaxImageCount == 5
\* longest list of present modes the device reports
MaxModes == 3
\* largest width / height of the window, and of the surface's extent limits
MaxWindow == 4
MaxExtentLimit == 3
\* frames of the alternating acquire/submit loop
MaxLoopFrames == 4

(***************************************************************************)
(* Program constants.                                                      *)
(***************************************************************************)
MAX_FRAMES_IN_FLIGHT == 2
InitialFrame == 0
VK_NULL_HANDLE == 0
\* std::numeric_limits<uint32_t>::max().  TLC's integers are 32-bit signed, so
\* the largest value of uint32_t is modelled by the largest value TLC has.
UINT32_MAX == 2147483647

VK_SUCCESS == "VK_SUCCESS"
VK_ERROR_OUT_OF_DATE_KHR == "VK_ERROR_OUT_OF_DATE_KHR"
VK_ERROR_DEVICE_LOST == "VK_ERROR_DEVICE_LOST"
\* what vkAcquireNextImageKHR and vkQueuePresentKHR may answer
PresentStatuses == {VK_SUCCESS, VK_ERROR_OUT_OF_DATE_KHR, VK_ERROR_DEVICE_LOST}

VK_FORMAT_B8G8R8A8_SRGB == "VK_FORMAT_B8G8R8A8_SRGB"
VK_FORMAT_B8G8R8A8_UNORM == "VK_FORMAT_B8G8R8A8_UNORM"
VK_COLOR_SPACE_SRGB_NONLINEAR_KHR == "VK_COLOR_SPACE_SRGB_NONLINEAR_KHR"
VK_COLOR_SPACE_DISPLAY_P3_NONLINEAR_EXT == "VK_COLOR_SPACE_DISPLAY_P3_NONLINEAR_EXT"
VK_PRESENT_MODE_IMMEDIATE_KHR == "VK_PRESENT_MODE_IMMEDIATE_KHR"
VK_PRESENT_MODE_MAILBOX_KHR == "VK_PRESENT_MODE_MAILBOX_KHR"
VK_PRESENT_MODE_FIFO_KHR == "VK_PRESENT_MODE_FIFO_KHR"
VK_FORMAT_D32_SFLOAT_S8_UINT == "VK_FORMAT_D32_SFLOAT_S8_UINT"
VK_FORMAT_D24_UNORM_S8_UINT == "VK_FORMAT_D24_UNORM_S8_UINT"
VK_FORMAT_D32_SFLOAT == "VK_FORMAT_D32_SFLOAT"
VK_FORMAT_UNDEFINED == "VK_FORMAT_UNDEFINED"
VK_SHARING_MODE_CONCURRENT == "VK_SHARING_MODE_CONCURRENT"
VK_SHARING_MODE_EXCLUSIVE == "VK_SHARING_MODE_EXCLUSIVE"

\* x + 1 in uint32_t
Inc32(x) == IF x = UINT32_MAX THEN 0 ELSE x + 1

Min(a, b) == IF a < b THEN a ELSE b
Max(a, b) == IF a > b THEN a ELSE b

\* element i of a std::vector (0-based)
At(v, i) == v[i + 1]
\* the vector v with element i replaced by x
Put(v, i, x) == [v EXCEPT ![i + 1] = x]
\* a vector of n copies of x
Filled(n, x) == [k \in 1..n |-> x]
\* the sequences over S of lengths lo..hi
SeqsOf(S, lo, hi) == UNION {[1..n -> S] : n \in lo..hi}

(***************************************************************************)
(* The selection functions of init().                                      *)
(***************************************************************************)
SurfaceFormat(f, c) == [format |-> f, colorSpace |-> c]
Extent2D(w, h) == [width |-> w, height |-> h]

IsPreferredFormat(availableFormat) ==
    /\ availableFormat.format = VK_FORMAT_B8G8R8A8_SRGB
    /\ availableFormat.colorSpace = VK_COLOR_SPACE_SRGB_NONLINEAR_KHR

\* C10 mutant: the preference loop is lost, the first element always wins
chooseSwapSurfaceFormat_first(availableFormats) == At(availableFormats, 0)

\* the first element satisfying the preference, else element 0
chooseSwapSurfaceFormat(availableFormats) ==
    LET hits == {k \in 1..Len(availableFormats) : IsPreferredFormat(availableFormats[k])}
    IN  IF hits # {}
        THEN availableFormats[CHOOSE k \in hits : \A j \in hits : k <= j]
        ELSE At(availableFormats, 0)

\* C11 mutant: the commented-out mailbox loop is live again
chooseSwapPresentMode_mailbox(availablePresentModes) ==
    IF \E k \in 1..Len(availablePresentModes) :
            availablePresentModes[k] = VK_PRESENT_MODE_MAILBOX_KHR
    THEN VK_PRESENT_MODE_MAILBOX_KHR
    ELSE IF \E k \in 1..Len(availablePresentModes) :
                 availablePresentModes[k] = VK_PRESENT_MODE_IMMEDIATE_KHR
         THEN VK_PRESENT_MODE_IMMEDIATE_KHR
         ELSE VK_PRESENT_MODE_FIFO_KHR

\* the mailbox loop is commented out in the source; immediate, else FIFO
chooseSwapPresentMode(availablePresentModes) ==
    IF \E k \in 1..Len(availablePresentModes) :
            availablePresentModes[k] = VK_PRESENT_MODE_IMMEDIATE_KHR
    THEN VK_PRESENT_MODE_IMMEDIATE_KHR
    ELSE VK_PRESENT_MODE_FIFO_KHR

\* C12 mutant: the lower limit is not applied
chooseSwapExtent_nomin(capabilities, we) ==
    IF capabilities.currentExtent.width # UINT32_MAX
    THEN capabilities.currentExtent
    ELSE Extent2D(Min(capabilities.maxImageExtent.width, we.width),
                  Min(capabilities.maxImageExtent.height, we.height))

\* the surface's current extent if defined, else the window extent clamped
chooseSwapExtent(capabilities, we) ==
    IF capabilities.currentExtent.width # UINT32_MAX
    THEN capabilities.currentExtent
    ELSE Extent2D(
            Max(capabilities.minImageExtent.width,
                Min(capabilities.maxImageExtent.width, we.width)),
            Max(capabilities.minImageExtent.height,
                Min(capabilities.maxImageExtent.height, we.height)))

\* C9 mutant: the declared maximum is ignored
RequestedImageCount_nocap(capabilities) ==
    Inc32(capabilities.minImageCount)

\* imageCount as init() computes it before creating the chain (uint32_t)
RequestedImageCount(capabilities) ==
    LET n == Inc32(capabilities.minImageCount)
    IN  IF capabilities.maxImageCount > 0 /\ n > capabilities.maxImageCount
        THEN capabilities.maxImageCount
        ELSE n

ImageSharingMode(indices) ==
    IF indices.graphicsFamily # indices.presentFamily
    THEN VK_SHARING_MODE_CONCURRENT
    ELSE VK_SHARING_MODE_EXCLUSIVE

\* AttachmentProperties as getAttachmentProperties() fills them in
AttachmentProperties(e, f, n) ==
    [type |-> "COLOR", extent |-> e, format |-> f, imageCount |-> n,
     samples |-> "VK_SAMPLE_COUNT_1_BIT"]

\* getAttachmentProperties() returns a reference to its local `props`; the
\* copy in init() reads through that dangling reference.  The build decides
\* what is read: the values just written (the stack slot is still intact),
\* indeterminate bytes, or no object at all (a null reference, the copy
\* faults).
IndeterminateProperties ==
    [type |-> "indeterminate", extent |-> Extent2D(0, 0), format |-> VK_FORMAT_UNDEFINED,
     imageCount |-> 0, samples |-> "indeterminate"]
FaultProperties == [IndeterminateProperties EXCEPT !.type = "fault"]
DanglingReads(props) == {props, IndeterminateProperties, FaultProperties}

\* device.findSupportedFormat (Device.cpp): the first candidate the device supports
findSupportedFormat(candidates, supported) ==
    LET hits == {k \in 1..Len(candidates) : candidates[k] \in supported}
    IN  candidates[CHOOSE k \in hits : \A j \in hits : k <= j]

findDepthFormat(stencilRequired, supported) ==
    LET base == <<VK_FORMAT_D32_SFLOAT_S8_UINT, VK_FORMAT_D24_UNORM_S8_UINT>>
        candidates == IF ~stencilRequired THEN Append(base, VK_FORMAT_D32_SFLOAT) ELSE base
    IN  findSupportedFormat(candidates, supported)

(***************************************************************************)
(* Handles.  vkCreateSemaphore / vkCreateFence hand out fresh non-null     *)
(* handles; the loop of createSyncObjects creates, for slot i, the         *)
(* image-available semaphore, the render-finished semaphore and the fence. *)
(***************************************************************************)
Slots == 0..(MAX_FRAMES_IN_FLIGHT - 1)
ImageAvailableHandle(i) == 3 * i + 1
RenderFinishedHandle(i) == 3 * i + 2
FenceHandle(i) == 3 * i + 3

\* C8 mutant: the fences are created unsignaled
fenceInfo_flags_none == "0"

\* fenceInfo.flags of createSyncObjects
fenceInfo_flags == "VK_FENCE_CREATE_SIGNALED_BIT"

\* the state vkCreateFence gives a new fence
CreatedFenceState(flags) == flags = "VK_FENCE_CREATE_SIGNALED_BIT"

(***************************************************************************)
(* State.                                                                  *)
(***************************************************************************)
VARIABLES
    \* the device abstraction (external): support details, queue families
    device,
    \* the extent of the window the caller renders to (external)
    window,
    \* control position of the caller / of the running member function
    pc,
    \* constructor arguments
    windowExtent, previous,
    \* the previous instance (an object of its own) and who still refers to it
    prevInst, prevRefs,
    \* members of the instance
    swapchain, oldSwapchain, imageFormat, depthFormat, extent, imageCount,
    swapchainAttachment, currentFrame,
    imageAvailableSemaphores, renderFinishedSemaphores, inFlightFences, imagesInFlight,
    \* the last VkSwapchainCreateInfoKHR handed to vkCreateSwapchainKHR
    createInfo,
    \* Vulkan objects: fence handle -> signaled, semaphore handle -> signaled
    fences, semaphores,
    \* the batches of this instance the GPU and the presentation engine have
    \* not finished with, in queue order
    batches,
    \* number of submitCommandBuffers calls that reached the present request
    presented,
    \* the slots whose fence a submit call has reset, the images a submit call
    \* has recorded a fence for (history)
    used,
    \* the last Vulkan call the running / last member call made
    request,
    \* arguments and results of the running / last member call
    imageIndex, result,
    \* number of instances constructed from a previous one
    recreated

vars == <<device, window, pc, windowExtent, previous, prevInst, prevRefs,
          swapchain, oldSwapchain, imageFormat, depthFormat, extent, imageCount,
          swapchainAttachment, currentFrame,
          imageAvailableSemaphores, renderFinishedSemaphores, inFlightFences, imagesInFlight,
          createInfo, fences, semaphores, batches, presented, used, request, imageIndex, result, recreated>>

members == <<swapchain, oldSwapchain, imageFormat, depthFormat, extent, imageCount,
             swapchainAttachment, currentFrame,
             imageAvailableSemaphores, renderFinishedSemaphores, inFlightFences, imagesInFlight>>
ctorArgs == <<windowExtent, previous>>
frameVars == <<fences, semaphores, batches, presented, used, request, imageIndex, result>>

NoInstance == [swapchain |-> VK_NULL_HANDLE, alive |-> FALSE]
NoRefs == [caller |-> FALSE, param |-> FALSE]
NoCreateInfo == [requested |-> FALSE]
NoResult == [call |-> "none", outcome |-> "none", value |-> "none"]
NoAttachment == [present |-> FALSE]
NoRequest == [api |-> "none"]
NoneUsed == [slots |-> {}, images |-> {}]
NoExtent == Extent2D(0, 0)

(***************************************************************************)
(* Ownership of the previous instance.  It is held through                 *)
(* std::shared_ptr: by the caller (if it passed a copy), by the            *)
(* constructor's by-value parameter `previous`, and by the member          *)
(* oldSwapchain.  Its destructor runs when the last of them lets go.       *)
(***************************************************************************)
\* ~EngineSwapChain: the attachment, the chain and the sync objects go
Destructor(inst) == [inst EXCEPT !.swapchain = VK_NULL_HANDLE, !.alive = FALSE]

Referenced(refs, member) == refs.caller \/ refs.param \/ member = "previous"

AfterRelease(inst, refs, member) ==
    IF inst.alive /\ ~Referenced(refs, member) THEN Destructor(inst) ELSE inst

\* C7 mutant: the hint is never taken from the previous instance
OldSwapchainHint_null(member, inst) == VK_NULL_HANDLE

\* createInfo.oldSwapchain = !oldSwapchain ? VK_NULL_HANDLE : oldSwapchain->swapchain
OldSwapchainHint(member, inst) ==
    IF member = "nullptr" THEN VK_NULL_HANDLE ELSE inst.swapchain

(***************************************************************************)
(* Construction.                                                           *)
(***************************************************************************)
\* The member-initialiser list of either constructor.  `prev` is "absent"
\* for EngineSwapChain(device, extent), else the shared_ptr given:
\* "nullptr", or "previous" when the caller hands over the instance it has
\* been using (keep: the caller passed a copy and still holds its own).
CtorBegin(prev, keep) ==
    /\ \/ pc = "none" /\ prev \in {"absent", "nullptr"}
       \/ pc = "idle" /\ prev = "previous" /\ recreated < MaxRecreate
    /\ pc' = "init"
    /\ windowExtent' = window
    /\ previous' = prev
    /\ prevInst' = IF prev = "previous" THEN [swapchain |-> swapchain, alive |-> TRUE]
                   ELSE NoInstance
    /\ prevRefs' = IF prev = "previous" THEN [caller |-> keep, param |-> TRUE] ELSE NoRefs
    /\ recreated' = IF prev = "previous" THEN recreated + 1 ELSE recreated
    /\ oldSwapchain' = IF prev = "absent" THEN "nullptr" ELSE prev
    /\ swapchain' = VK_NULL_HANDLE
    /\ imageFormat' = VK_FORMAT_UNDEFINED
    /\ depthFormat' = VK_FORMAT_UNDEFINED
    /\ extent' = NoExtent
    /\ imageCount' = 0
    /\ swapchainAttachment' = NoAttachment
    /\ currentFrame' = InitialFrame
    /\ imageAvailableSemaphores' = <<>>
    /\ renderFinishedSemaphores' = <<>>
    /\ inFlightFences' = <<>>
    /\ imagesInFlight' = <<>>
    /\ createInfo' = NoCreateInfo
    /\ fences' = <<>>
    /\ semaphores' = <<>>
    /\ batches' = <<>>
    /\ presented' = 0
    /\ used' = NoneUsed
    /\ request' = NoRequest
    /\ imageIndex' = 0
    /\ result' = NoResult
    /\ UNCHANGED <<device, window, window>>

\* An exception leaves the constructor: the members and the parameter are
\* destroyed (the destructor of the half-built instance does not run).
CtorThrow(what) ==
    /\ pc' = "ctor_failed"
    /\ result' = [call |-> "EngineSwapChain", outcome |-> "thrown", value |-> what]
    /\ oldSwapchain' = "nullptr"
    /\ prevRefs' = [prevRefs EXCEPT !.param = FALSE]
    /\ prevInst' = AfterRelease(prevInst, prevRefs', "nullptr")

\* init(windowExtent)
CtorInit ==
    /\ pc = "init"
    /\ LET swapChainSupport == device
           surfaceFormat == chooseSwapSurfaceFormat(swapChainSupport.formats)
           presentMode == chooseSwapPresentMode(swapChainSupport.presentModes)
           requested == RequestedImageCount(swapChainSupport.capabilities)
           newExtent == chooseSwapExtent(swapChainSupport.capabilities, windowExtent)
       IN
       /\ imageFormat' = surfaceFormat.format
       /\ depthFormat' = findDepthFormat(TRUE, device.depthFormats)
       /\ extent' = newExtent
       /\ createInfo' = [requested |-> TRUE,
                         minImageCount |-> requested,
                         imageFormat |-> surfaceFormat.format,
                         imageColorSpace |-> surfaceFormat.colorSpace,
                         imageExtent |-> newExtent,
                         imageSharingMode |-> ImageSharingMode(device.indices),
                         presentMode |-> presentMode,
                         oldSwapchain |-> OldSwapchainHint(oldSwapchain, prevInst)]
       /\ \E created \in BOOLEAN :
            IF ~created
            THEN /\ CtorThrow("failed to create swap chain!")
                 /\ imageCount' = requested
                 /\ UNCHANGED <<swapchain, swapchainAttachment>>
            ELSE /\ swapchain' = recreated + 1
                 \* vkGetSwapchainImagesKHR: the count the chain really has
                 /\ imageCount' = requested + device.extraImages
                 /\ \E swapProperties \in
                        DanglingReads(AttachmentProperties(newExtent, surfaceFormat.format,
                                                           imageCount')) :
                        IF swapProperties.type = "fault"
                        THEN /\ pc' = "crashed"
                             /\ UNCHANGED <<swapchainAttachment, result>>
                        ELSE /\ pc' = "createSyncObjects"
                             /\ swapchainAttachment' =
                                    [present |-> TRUE, props |-> swapProperties,
                                     images |-> imageCount']
                             /\ UNCHANGED result
                 /\ UNCHANGED <<oldSwapchain, prevRefs, prevInst>>
    /\ UNCHANGED <<device, window, ctorArgs, currentFrame, imageAvailableSemaphores,
                   renderFinishedSemaphores, inFlightFences, imagesInFlight,
                   fences, semaphores, batches, presented, used, request, imageIndex, recreated>>

\* The create calls of createSyncObjects() in the order the loop makes them:
\* for slot i the image-available semaphore, the render-finished semaphore
\* and the fence (short-circuit ||: nothing after a refused call is made).
ImageAvailableCall(i) == 3 * i
RenderFinishedCall(i) == 3 * i + 1
FenceCall(i) == 3 * i + 2
SyncCreateCalls == 3 * MAX_FRAMES_IN_FLIGHT

\* createSyncObjects(); failAt is the create call that is refused (none: all
\* succeed); what the calls before it created stays in the vectors
CtorCreateSyncObjects ==
    /\ pc = "createSyncObjects"
    /\ \E failAt \in 0..SyncCreateCalls :
        LET handle(call, h) == IF call < failAt THEN h ELSE VK_NULL_HANDLE
        IN
        /\ imageAvailableSemaphores' =
              [k \in 1..MAX_FRAMES_IN_FLIGHT |->
                  handle(ImageAvailableCall(k - 1), ImageAvailableHandle(k - 1))]
        /\ renderFinishedSemaphores' =
              [k \in 1..MAX_FRAMES_IN_FLIGHT |->
                  handle(RenderFinishedCall(k - 1), RenderFinishedHandle(k - 1))]
        /\ inFlightFences' =
              [k \in 1..MAX_FRAMES_IN_FLIGHT |-> handle(FenceCall(k - 1), FenceHandle(k - 1))]
        /\ imagesInFlight' = Filled(imageCount, VK_NULL_HANDLE)
        /\ fences' = [h \in {FenceHandle(i) : i \in {j \in Slots : FenceCall(j) < failAt}} |->
                         CreatedFenceState(fenceInfo_flags)]
        /\ semaphores' =
              [h \in {ImageAvailableHandle(i) : i \in {j \in Slots : ImageAvailableCall(j) < failAt}}
                     \cup {RenderFinishedHandle(i) :
                              i \in {j \in Slots : RenderFinishedCall(j) < failAt}} |-> FALSE]
        /\ IF failAt < SyncCreateCalls
           THEN CtorThrow("failed to create synchronization objects for a frame")
           ELSE /\ pc' = IF previous = "absent" THEN "idle" ELSE "release"
                /\ UNCHANGED <<oldSwapchain, prevRefs, prevInst, result>>
    /\ UNCHANGED <<device, window, ctorArgs, swapchain, imageFormat, depthFormat, extent,
                   imageCount, swapchainAttachment, currentFrame, createInfo,
                   batches, presented, used, request, imageIndex, recreated>>

\* oldSwapchain = nullptr;
CtorRelease ==
    /\ pc = "release"
    /\ pc' = "return"
    /\ oldSwapchain' = "nullptr"
    /\ prevInst' = AfterRelease(prevInst, prevRefs, oldSwapchain')
    /\ UNCHANGED <<device, window, ctorArgs, prevRefs, swapchain, imageFormat, depthFormat,
                   extent, imageCount, swapchainAttachment, currentFrame,
                   imageAvailableSemaphores, renderFinishedSemaphores, inFlightFences,
                   imagesInFlight, createInfo, frameVars, recreated>>

\* the constructor returns: its parameter `previous` is destroyed
CtorReturn ==
    /\ pc = "return"
    /\ pc' = "idle"
    /\ previous' = "absent"
    /\ UNCHANGED windowExtent
    /\ prevRefs' = [prevRefs EXCEPT !.param = FALSE]
    /\ prevInst' = AfterRelease(prevInst, prevRefs', oldSwapchain)
    /\ UNCHANGED <<device, window, members, createInfo, frameVars, recreated>>

\* the caller lets go of its own pointer to the previous instance
ReleasePrevious ==
    /\ pc = "idle"
    /\ prevRefs.caller
    /\ prevRefs' = [prevRefs EXCEPT !.caller = FALSE]
    /\ prevInst' = AfterRelease(prevInst, prevRefs', oldSwapchain)
    /\ UNCHANGED <<device, window, pc, ctorArgs, members, createInfo, frameVars, recreated>>

(***************************************************************************)
(* The frame protocol.                                                     *)
(***************************************************************************)
\* one Vulkan call (or member write) of the running member function
Call(api, fence, wait, signal, image, status) ==
    [api |-> api, fence |-> fence, wait |-> wait, signal |-> signal,
     image |-> image, status |-> status]

\* a batch handed to the graphics queue, and the present request that follows it
Batch(slot, image, wait, signal, fence) ==
    [slot |-> slot, image |-> image, wait |-> wait, signal |-> signal, fence |-> fence,
     done |-> FALSE, present |-> "none"]

\* what vkWaitForFences can answer: VK_SUCCESS once the fence is signaled
\* (the timeout is unbounded), or an error at any time
WaitStatuses == {VK_SUCCESS, VK_ERROR_DEVICE_LOST}
FenceWaitReturns(fenceState, fence, status) ==
    IF status = VK_SUCCESS THEN fenceState[fence] ELSE TRUE

\* vkWaitForFences(inFlightFences[currentFrame], UINT64_MAX) has returned
\* with `status`; line 127 does not look at it
AcquireWaitDone(fs, cf, fenceState, status) ==
    FenceWaitReturns(fenceState, At(fs, cf), status)

\* the semaphore handed to vkAcquireNextImageKHR
AcquireSemaphore(sems, cf) == At(sems, cf)

\* C5 mutant: acquireNextImage hides a stale surface from the caller
AcquireReturn_hide(status) ==
    IF status = VK_ERROR_OUT_OF_DATE_KHR THEN VK_SUCCESS ELSE status

\* return vkAcquireNextImageKHR(...)
AcquireReturn(status) == status

\* C6 mutant: an error status leaves acquireNextImage as an exception
AcquireOutcome_throw(status) ==
    IF status \in {VK_SUCCESS, VK_ERROR_OUT_OF_DATE_KHR} THEN "returned" ELSE "thrown"

\* acquireNextImage has no throw: every status is a normal return
AcquireOutcome(status) == "returned"

\* if (imagesInFlight[*imageIndex] != VK_NULL_HANDLE) vkWaitForFences(...) has
\* returned with `status` (no call, counted as VK_SUCCESS, for a null
\* entry); line 135 does not look at it
SubmitWaitDone(table, img, fenceState, status) ==
    IF At(table, img) = VK_NULL_HANDLE
    THEN status = VK_SUCCESS
    ELSE FenceWaitReturns(fenceState, At(table, img), status)

\* C1 mutant: the slot advances only after a successful present
NextFrame_onsuccess(cf, status) ==
    IF status = VK_SUCCESS THEN (cf + 1) % MAX_FRAMES_IN_FLIGHT ELSE cf

\* C2 mutant: the slot advances without wrapping
NextFrame_nowrap(cf, status) == cf + 1

\* currentFrame = (currentFrame + 1) % MAX_FRAMES_IN_FLIGHT
NextFrame(cf, status) == (cf + 1) % MAX_FRAMES_IN_FLIGHT

\* C20 mutant: the result of vkQueueSubmit is not checked
QueueSubmitThrows_never(status) == FALSE

\* if (vkQueueSubmit(...) != VK_SUCCESS) { throw ... }
QueueSubmitThrows(status) == status # VK_SUCCESS

\* C14 mutant: currentFrame is advanced before the present request is built
PresentSemaphore_advanced(sems, cf) == At(sems, (cf + 1) % MAX_FRAMES_IN_FLIGHT)

\* presentInfo.pWaitSemaphores = signalSemaphores = { renderFinishedSemaphores[currentFrame] }
PresentSemaphore(sems, cf) == At(sems, cf)

\* return result
SubmitReturn(status) == status

\* submitCommandBuffers throws only for vkQueueSubmit; the present status is returned
PresentOutcome(status) == "returned"

Images == 0..(imageCount - 1)

AcquireBegin ==
    /\ pc = "idle"
    /\ pc' = "acquire_wait"
    /\ request' = NoRequest
    /\ result' = NoResult
    /\ UNCHANGED <<device, window, ctorArgs, prevInst, prevRefs, members, createInfo,
                   fences, semaphores, batches, presented, used, imageIndex, recreated>>

\* vkWaitForFences on the current slot's fence: blocks until the fence is
\* signaled or the call fails; its result is discarded
AcquireWait ==
    /\ pc = "acquire_wait"
    /\ \E status \in WaitStatuses :
          /\ AcquireWaitDone(inFlightFences, currentFrame, fences, status)
          /\ request' = (Call("vkWaitForFences", At(inFlightFences, currentFrame),
                                         VK_NULL_HANDLE, VK_NULL_HANDLE, 0, status))
    /\ pc' = "acquire_request"
    /\ UNCHANGED <<device, window, ctorArgs, prevInst, prevRefs, members, createInfo,
                   fences, semaphores, batches, presented, used, imageIndex, result, recreated>>

\* vkAcquireNextImageKHR: the presentation subsystem answers with a status
\* and, on success, an image index; the semaphore will then be signaled
AcquireRequest ==
    /\ pc = "acquire_request"
    /\ \E status \in PresentStatuses, index \in Images :
        LET sem == AcquireSemaphore(imageAvailableSemaphores, currentFrame) IN
        /\ request' = (Call("vkAcquireNextImageKHR", VK_NULL_HANDLE,
                                       VK_NULL_HANDLE, sem, index, status))
        /\ IF status = VK_SUCCESS
           THEN /\ imageIndex' = index
                /\ semaphores' = [semaphores EXCEPT ![sem] = TRUE]
           ELSE /\ index = 0
                /\ UNCHANGED <<imageIndex, semaphores>>
        /\ result' = [call |-> "acquireNextImage", outcome |-> AcquireOutcome(status),
                      value |-> AcquireReturn(status)]
    /\ pc' = "idle"
    /\ UNCHANGED <<device, window, ctorArgs, prevInst, prevRefs, members, createInfo,
                   fences, batches, presented, used, recreated>>

\* the caller calls submitCommandBuffers(buffers, &imageIndex)
SubmitCall(img) ==
    /\ pc = "idle"
    /\ img \in Images
    /\ pc' = "submit_wait"
    /\ imageIndex' = img
    /\ request' = NoRequest
    /\ result' = NoResult
    /\ UNCHANGED <<device, window, ctorArgs, prevInst, prevRefs, members, createInfo,
                   fences, semaphores, batches, presented, used, recreated>>

\* a submitCommandBuffers call with any image index, at any time
SubmitBegin(img) == presented < MaxSubmits /\ SubmitCall(img)

\* lines 134-135: wait for the fence recorded for the image, if there is one
SubmitWait ==
    /\ pc = "submit_wait"
    /\ \E status \in WaitStatuses :
          /\ SubmitWaitDone(imagesInFlight, imageIndex, fences, status)
          /\ request' = IF At(imagesInFlight, imageIndex) # VK_NULL_HANDLE
                        THEN Call("vkWaitForFences", At(imagesInFlight, imageIndex),
                                  VK_NULL_HANDLE, VK_NULL_HANDLE, imageIndex, status)
                        ELSE request
    /\ pc' = "submit_record"
    /\ UNCHANGED <<device, window, ctorArgs, prevInst, prevRefs, members, createInfo,
                   fences, semaphores, batches, presented, used, imageIndex, result, recreated>>

\* imagesInFlight[*imageIndex] = inFlightFences[currentFrame]
SubmitRecord ==
    /\ pc = "submit_record"
    /\ pc' = "submit_reset"
    /\ imagesInFlight' = Put(imagesInFlight, imageIndex, At(inFlightFences, currentFrame))
    /\ used' = [used EXCEPT !.images = @ \cup {imageIndex}]
    /\ request' = (Call("imagesInFlight", At(inFlightFences, currentFrame),
                                   VK_NULL_HANDLE, VK_NULL_HANDLE, imageIndex, VK_SUCCESS))
    /\ UNCHANGED <<device, window, ctorArgs, prevInst, prevRefs, swapchain, oldSwapchain,
                   imageFormat, depthFormat, extent, imageCount, swapchainAttachment,
                   currentFrame, imageAvailableSemaphores, renderFinishedSemaphores,
                   inFlightFences, createInfo, fences, semaphores, batches, presented, imageIndex,
                   result, recreated>>

\* vkResetFences(inFlightFences[currentFrame])
SubmitReset ==
    /\ pc = "submit_reset"
    /\ pc' = "submit_queue"
    /\ fences' = [fences EXCEPT ![At(inFlightFences, currentFrame)] = FALSE]
    /\ used' = [used EXCEPT !.slots = @ \cup {currentFrame}]
    /\ request' = (Call("vkResetFences", At(inFlightFences, currentFrame),
                                   VK_NULL_HANDLE, VK_NULL_HANDLE, imageIndex, VK_SUCCESS))
    /\ UNCHANGED <<device, window, ctorArgs, prevInst, prevRefs, members, createInfo,
                   semaphores, batches, presented, imageIndex, result, recreated>>

\* vkQueueSubmit(graphicsQueue, submitInfo, inFlightFences[currentFrame]); throws on failure
SubmitQueue ==
    /\ pc = "submit_queue"
    /\ \E accepted \in BOOLEAN :
        LET wait == At(imageAvailableSemaphores, currentFrame)
            signal == At(renderFinishedSemaphores, currentFrame)
            fence == At(inFlightFences, currentFrame)
            status == IF accepted THEN VK_SUCCESS ELSE VK_ERROR_DEVICE_LOST
        IN
        /\ request' = (Call("vkQueueSubmit", fence, wait, signal, imageIndex, status))
        \* a submission that failed puts no batch in the queue
        /\ batches' = IF accepted
                      THEN Append(batches, Batch(currentFrame, imageIndex, wait, signal, fence))
                      ELSE batches
        /\ IF ~QueueSubmitThrows(status)
           THEN /\ pc' = "submit_present"
                /\ UNCHANGED result
           ELSE /\ pc' = "idle"
                /\ result' = [call |-> "submitCommandBuffers", outcome |-> "thrown",
                              value |-> "failed to submit draw command buffer!"]
    /\ UNCHANGED <<device, window, ctorArgs, prevInst, prevRefs, members, createInfo,
                   fences, semaphores, presented, used, imageIndex, recreated>>

\* vkQueuePresentKHR(presentQueue, presentInfo), then lines 169-171.  The
\* wait on the render-finished semaphore is queued whatever the status.
SubmitPresent ==
    /\ pc = "submit_present"
    /\ \E status \in PresentStatuses :
        /\ request' = (Call("vkQueuePresentKHR", VK_NULL_HANDLE,
                                       PresentSemaphore(renderFinishedSemaphores, currentFrame),
                                       VK_NULL_HANDLE, imageIndex, status))
        /\ batches' = [batches EXCEPT ![Len(batches)].present = "waiting"]
        /\ currentFrame' = NextFrame(currentFrame, status)
        /\ presented' = presented + 1
        /\ result' = [call |-> "submitCommandBuffers", outcome |-> PresentOutcome(status),
                      value |-> SubmitReturn(status)]
    /\ pc' = "idle"
    /\ UNCHANGED <<device, window, ctorArgs, prevInst, prevRefs, swapchain, oldSwapchain,
                   imageFormat, depthFormat, extent, imageCount, swapchainAttachment,
                   imageAvailableSemaphores, renderFinishedSemaphores, inFlightFences,
                   imagesInFlight, createInfo, fences, semaphores, used, imageIndex, recreated>>

(***************************************************************************)
(* The GPU and the presentation engine.                                    *)
(***************************************************************************)
\* the sequence q without its element k
Without(q, k) == [j \in 1..(Len(q) - 1) |-> IF j < k THEN q[j] ELSE q[j + 1]]

\* batch k runs: it consumes its wait semaphore and, finished, signals its
\* fence and its render-finished semaphore
BatchComplete(k) ==
    /\ k \in 1..Len(batches)
    /\ ~batches[k].done
    /\ semaphores[batches[k].wait]
    /\ batches' = [batches EXCEPT ![k].done = TRUE]
    /\ fences' = [fences EXCEPT ![batches[k].fence] = TRUE]
    /\ semaphores' = [semaphores EXCEPT ![batches[k].wait] = FALSE,
                                        ![batches[k].signal] = TRUE]
    /\ UNCHANGED <<device, window, pc, ctorArgs, prevInst, prevRefs, members, createInfo,
                   presented, used, request, imageIndex, result, recreated>>

\* the present request of batch k consumes the render-finished semaphore;
\* the GPU and the presentation engine are then done with the batch
PresentConsume(k) ==
    /\ k \in 1..Len(batches)
    /\ batches[k].present = "waiting"
    /\ batches[k].done
    /\ semaphores[batches[k].signal]
    /\ batches' = Without(batches, k)
    /\ semaphores' = [semaphores EXCEPT ![batches[k].signal] = FALSE]
    /\ UNCHANGED <<device, window, pc, ctorArgs, prevInst, prevRefs, members, createInfo,
                   fences, presented, used, request, imageIndex, result, recreated>>

(***************************************************************************)
(* Devices and specifications.                                             *)
(***************************************************************************)
Capabilities(minCount, maxCount, current, minExtent, maxExtent) ==
    [minImageCount |-> minCount, maxImageCount |-> maxCount, currentExtent |-> current,
     minImageExtent |-> minExtent, maxImageExtent |-> maxExtent]

Device(formats, presentModes, capabilities, extraImages) ==
    [formats |-> formats, presentModes |-> presentModes, capabilities |-> capabilities,
     \* images the presentation subsystem creates beyond createInfo.minImageCount
     extraImages |-> extraImages,
     depthFormats |-> {VK_FORMAT_D24_UNORM_S8_UINT, VK_FORMAT_D32_SFLOAT},
     indices |-> [graphicsFamily |-> 0, presentFamily |-> 0]]

SurfaceFormats ==
    {SurfaceFormat(f, c) : f \in {VK_FORMAT_B8G8R8A8_SRGB, VK_FORMAT_B8G8R8A8_UNORM},
                           c \in {VK_COLOR_SPACE_SRGB_NONLINEAR_KHR,
                                  VK_COLOR_SPACE_DISPLAY_P3_NONLINEAR_EXT}}

WindowExtent == Extent2D(800, 600)
FixedExtentCaps(minCount, maxCount) ==
    Capabilities(minCount, maxCount, Extent2D(800, 600), Extent2D(1, 1), Extent2D(4096, 4096))

\* the device of the frame-protocol specification: 2 images are requested
\* (minImageCount 1, maxImageCount 2) and 2..2+MaxFrameExtraImages are created
FrameDevices ==
    {Device(<<SurfaceFormat(VK_FORMAT_B8G8R8A8_UNORM, VK_COLOR_SPACE_SRGB_NONLINEAR_KHR),
              SurfaceFormat(VK_FORMAT_B8G8R8A8_SRGB, VK_COLOR_SPACE_SRGB_NONLINEAR_KHR)>>,
            <<VK_PRESENT_MODE_FIFO_KHR, VK_PRESENT_MODE_MAILBOX_KHR>>,
            FixedExtentCaps(1, 2), extra) : extra \in 0..MaxFrameExtraImages}

\* the devices of the construction specification: every non-empty list of
\* surface formats up to MaxFormats, every pair of image-count limits
InitDevices ==
    {Device(fs, <<VK_PRESENT_MODE_FIFO_KHR, VK_PRESENT_MODE_IMMEDIATE_KHR>>,
            FixedExtentCaps(lo, hi), extra) :
        fs \in SeqsOf(SurfaceFormats, 1, MaxFormats),
        lo \in 1..MaxMinImageCount, hi \in 0..MaxMaxImageCount,
        extra \in 0..MaxExtraImages}

InitOf(devices, windows) ==
    /\ device \in devices
    /\ window \in windows
    /\ pc = "none"
    /\ windowExtent = NoExtent
    /\ previous = "absent"
    /\ prevInst = NoInstance
    /\ prevRefs = NoRefs
    /\ swapchain = VK_NULL_HANDLE
    /\ oldSwapchain = "nullptr"
    /\ imageFormat = VK_FORMAT_UNDEFINED
    /\ depthFormat = VK_FORMAT_UNDEFINED
    /\ extent = NoExtent
    /\ imageCount = 0
    /\ swapchainAttachment = NoAttachment
    /\ currentFrame = InitialFrame
    /\ imageAvailableSemaphores = <<>>
    /\ renderFinishedSemaphores = <<>>
    /\ inFlightFences = <<>>
    /\ imagesInFlight = <<>>
    /\ createInfo = NoCreateInfo
    /\ fences = <<>>
    /\ semaphores = <<>>
    /\ batches = <<>>
    /\ presented = 0
    /\ used = NoneUsed
    /\ request = NoRequest
    /\ imageIndex = 0
    /\ result = NoResult
    /\ recreated = 0

InitWith(devices) == InitOf(devices, {WindowExtent})

Init == InitWith(FrameDevices)

\* the first construction: either constructor, no previous instance
ConstructFirst ==
    \/ \E prev \in {"absent", "nullptr"} : CtorBegin(prev, FALSE)
    \/ CtorInit
    \/ CtorCreateSyncObjects
    \/ CtorRelease
    \/ CtorReturn

\* construction, and recreation from the instance in use
Construct ==
    \/ \E prev \in {"absent", "nullptr"} : CtorBegin(prev, FALSE)
    \/ \E keep \in BOOLEAN : CtorBegin("previous", keep)
    \/ CtorInit
    \/ CtorCreateSyncObjects
    \/ CtorRelease
    \/ CtorReturn
    \/ ReleasePrevious

Acquire == AcquireBegin \/ AcquireWait \/ AcquireRequest

Submit ==
    \/ \E img \in 0..(imageCount - 1) : SubmitBegin(img)
    \/ SubmitWait
    \/ SubmitRecord
    \/ SubmitReset
    \/ SubmitQueue
    \/ SubmitPresent

Gpu == \E k \in 1..MaxSubmits : BatchComplete(k) \/ PresentConsume(k)

Next == ConstructFirst \/ Acquire \/ Submit \/ Gpu

\* one instance: its construction, then any interleaving of acquireNextImage
\* and submitCommandBuffers calls with the GPU
Spec == Init /\ [][Next]_vars

\* construction alone, over the wide range of devices
InitInit == InitWith(InitDevices)
SpecInit == InitInit /\ [][ConstructFirst]_vars

\* construction and recreation from a previous instance
RecreateDevices ==
    {Device(<<SurfaceFormat(VK_FORMAT_B8G8R8A8_SRGB, VK_COLOR_SPACE_SRGB_NONLINEAR_KHR)>>,
            <<VK_PRESENT_MODE_FIFO_KHR>>, FixedExtentCaps(lo, 0), extra) :
        lo \in 1..2, extra \in 0..MaxExtraImages}
InitRecreate == InitWith(RecreateDevices)
SpecRecreate == InitRecreate /\ [][Construct]_vars

\* the selections of init() over the present modes and extents a surface can
\* report: every list of present modes up to MaxModes (the empty one
\* included), every window extent up to MaxWindow, and extent limits with
\* minImageExtent <= maxImageExtent per axis (as Vulkan reports them), with
\* a current extent that is defined or the UINT32_MAX sentinel
PresentModes ==
    {VK_PRESENT_MODE_IMMEDIATE_KHR, VK_PRESENT_MODE_MAILBOX_KHR, VK_PRESENT_MODE_FIFO_KHR}
ModeDevices ==
    {Device(<<SurfaceFormat(VK_FORMAT_B8G8R8A8_SRGB, VK_COLOR_SPACE_SRGB_NONLINEAR_KHR)>>,
            ms, FixedExtentCaps(2, 0), 0) : ms \in SeqsOf(PresentModes, 0, MaxModes)}
CurrentExtents ==
    {Extent2D(UINT32_MAX, UINT32_MAX), Extent2D(UINT32_MAX, 1), Extent2D(MaxWindow + 1, 1)}
ExtentCaps ==
    {Capabilities(2, 0, cur, Extent2D(lw, lh), Extent2D(hw, hh)) :
        cur \in CurrentExtents, lw \in 1..2, lh \in 1..2,
        hw \in 2..MaxExtentLimit, hh \in 2..MaxExtentLimit}
ExtentDevices ==
    {Device(<<SurfaceFormat(VK_FORMAT_B8G8R8A8_SRGB, VK_COLOR_SPACE_SRGB_NONLINEAR_KHR)>>,
            <<VK_PRESENT_MODE_FIFO_KHR>>, caps, 0) : caps \in ExtentCaps}
Windows == {Extent2D(w, h) : w \in 0..MaxWindow, h \in 0..MaxWindow}
InitSelect ==
    \/ InitOf(ModeDevices, {WindowExtent})
    \/ InitOf(ExtentDevices, Windows)
SpecSelect == InitSelect /\ [][ConstructFirst]_vars

\* the fence waits as they return on a device that is not lost
AcquireWaitSignaled == AcquireWait /\ request'.status = VK_SUCCESS
SubmitWaitSignaled ==
    /\ SubmitWait
    /\ At(imagesInFlight, imageIndex) # VK_NULL_HANDLE => request'.status = VK_SUCCESS

\* The frame loop of the caller: acquireNextImage, and after a successful
\* acquire submitCommandBuffers with the index acquired; an acquire that
\* did not succeed is followed by another acquire, and an exception out of
\* submitCommandBuffers ends the loop.
LoopTurn ==
    IF pc # "idle" THEN "busy"
    ELSE IF result.outcome = "thrown" THEN "stopped"
    ELSE IF result.call = "acquireNextImage" /\ result.value = VK_SUCCESS THEN "submit"
    ELSE "acquire"

LoopAcquireBegin == LoopTurn = "acquire" /\ presented < MaxLoopFrames /\ AcquireBegin
LoopSubmitBegin == LoopTurn = "submit" /\ SubmitCall(imageIndex)

\* the device of the loop: 3 images (minImageCount 2, no maximum), more
\* than there are slots; the presentation subsystem hands out any index
LoopDevices ==
    {Device(<<SurfaceFormat(VK_FORMAT_B8G8R8A8_SRGB, VK_COLOR_SPACE_SRGB_NONLINEAR_KHR)>>,
            <<VK_PRESENT_MODE_FIFO_KHR>>, FixedExtentCaps(2, 0), 0)}
InitLoop == InitWith(LoopDevices)

LoopCpu ==
    \/ LoopAcquireBegin
    \/ AcquireWait
    \/ AcquireRequest
    \/ LoopSubmitBegin
    \/ SubmitWait
    \/ SubmitRecord
    \/ SubmitReset
    \/ SubmitQueue
    \/ SubmitPresent
GpuLoop == \E k \in 1..MaxLoopFrames : BatchComplete(k) \/ PresentConsume(k)
NextLoop == ConstructFirst \/ LoopCpu \/ GpuLoop
SpecLoop == InitLoop /\ [][NextLoop]_vars

\* The loop under fair scheduling: the calling thread keeps executing a
\* call it is in, a wait returns once its fence is signaled (nothing makes
\* a wait fail), the presentation subsystem answers every acquire request,
\* and the GPU completes every batch it can run.
GpuBatches == \E k \in 1..MaxLoopFrames : BatchComplete(k)
LoopFairness ==
    /\ WF_vars(AcquireWaitSignaled)
    /\ WF_vars(AcquireRequest)
    /\ WF_vars(SubmitWaitSignaled)
    /\ WF_vars(SubmitRecord)
    /\ WF_vars(SubmitReset)
    /\ WF_vars(SubmitQueue)
    /\ WF_vars(SubmitPresent)
    /\ WF_vars(GpuBatches)
SpecLoopFair == SpecLoop /\ LoopFairness

\* The loop on a device that is not lost (every fence wait returns with
\* its fence signaled) and with a presentation subsystem that hands out
\* only images it has back: no image whose batch or present request is
\* still queued.
ReleasedImages == Images \ {batches[k].image : k \in 1..Len(batches)}
AcquireReleased ==
    /\ AcquireRequest
    /\ request'.status = VK_SUCCESS => request'.image \in ReleasedImages
LoopCpuReleased ==
    \/ LoopAcquireBegin
    \/ AcquireWaitSignaled
    \/ AcquireReleased
    \/ LoopSubmitBegin
    \/ SubmitWaitSignaled
    \/ SubmitRecord
    \/ SubmitReset
    \/ SubmitQueue
    \/ SubmitPresent
NextLoopReleased == ConstructFirst \/ LoopCpuReleased \/ GpuLoop
SpecLoopReleased == InitLoop /\ [][NextLoopReleased]_vars

(***************************************************************************)
(* Claims.                                                                 *)
(***************************************************************************)
Constructed == pc \notin {"none", "init", "createSyncObjects", "release", "return",
                          "ctor_failed", "crashed"}
\* the constructor has returned and no member function has been called yet
JustConstructed == pc = "idle" /\ result.call = "none"

\* C1: counted from construction, after k submitCommandBuffers calls that
\* reached the present request currentFrame is k mod MAX_FRAMES_IN_FLIGHT,
\* whatever the present requests answered.
C1_SlotCountsSubmits == currentFrame = presented % MAX_FRAMES_IN_FLIGHT

\* C1 witness: three submits, the last one answered with an error, slot 1.
C1_Witness ==
    /\ pc = "idle"
    /\ presented = 3
    /\ result.call = "submitCommandBuffers"
    /\ result.value = VK_ERROR_DEVICE_LOST
    /\ currentFrame = 1

\* C2: in every reachable state currentFrame is in [0, MAX_FRAMES_IN_FLIGHT).
C2_FrameInRange == currentFrame \in 0..(MAX_FRAMES_IN_FLIGHT - 1)

\* C2 witness: the slot has wrapped back to 0 after a stale-surface present.
C2_Witness ==
    /\ pc = "idle"
    /\ presented = MAX_FRAMES_IN_FLIGHT
    /\ result.call = "submitCommandBuffers"
    /\ result.value = VK_ERROR_OUT_OF_DATE_KHR
    /\ currentFrame = 0

\* the fence recorded for the image the running submit call targets
RecordedFence == At(imagesInFlight, imageIndex)
RecordedFencePending ==
    /\ pc = "submit_wait"
    /\ RecordedFence # VK_NULL_HANDLE
    /\ ~fences[RecordedFence]

\* C3: while the fence recorded for the target image by an earlier submit is
\* unsignaled, a submit call stays at its wait: it resets no fence, hands
\* nothing to the graphics queue and issues no present request.
C3_SubmitWaitsForRecordedFence ==
    [][RecordedFencePending =>
          /\ pc' = "submit_wait"
          /\ Len(batches') <= Len(batches)
          /\ presented' = presented
          /\ \A h \in DOMAIN fences : fences[h] => fences'[h]
          /\ imagesInFlight' = imagesInFlight]_vars

\* C4: the acquire request is made only with the current slot's fence
\* signaled, right after the wait on that fence, and with the current
\* slot's image-available semaphore.
C4_AcquireAfterFence ==
    /\ pc = "acquire_request" =>
          /\ fences[At(inFlightFences, currentFrame)]
          /\ request.api = "vkWaitForFences"
          /\ request.fence = At(inFlightFences, currentFrame)
    /\ request.api = "vkAcquireNextImageKHR" =>
          /\ request.signal = ImageAvailableHandle(currentFrame)
          /\ request.signal = At(imageAvailableSemaphores, currentFrame)

\* C5: a submitCommandBuffers call whose queue submission succeeded returns
\* the status of its present request, acquireNextImage returns the status
\* of its acquire request, and a stale surface is a return value, never a
\* failure.
C5_StatusReturned ==
    /\ request.api = "vkQueuePresentKHR" =>
          /\ result.call = "submitCommandBuffers"
          /\ result.outcome = "returned"
          /\ result.value = request.status
    /\ request.api = "vkAcquireNextImageKHR" =>
          /\ result.call = "acquireNextImage"
          /\ result.outcome = "returned"
          /\ result.value = request.status

\* C5 witness: a stale surface reported by the acquire request has been returned.
C5_Witness ==
    /\ request.api = "vkAcquireNextImageKHR"
    /\ request.status = VK_ERROR_OUT_OF_DATE_KHR
    /\ result.value = VK_ERROR_OUT_OF_DATE_KHR

PresentationError ==
    /\ request.api \in {"vkAcquireNextImageKHR", "vkQueuePresentKHR"}
    /\ request.status \notin {VK_SUCCESS, VK_ERROR_OUT_OF_DATE_KHR}

\* C6 as claimed: an acquire or present request answered with an error
\* status ends the call in a failure, not in a normal return.
C6_ErrorIsFatal == PresentationError => result.outcome = "thrown"

\* C6 as amended: such a status is returned to the caller as the value of a
\* normal return, and the only call that ends in a failure is a
\* submitCommandBuffers whose vkQueueSubmit failed.
C6_ErrorReturned ==
    /\ PresentationError =>
          /\ result.outcome = "returned"
          /\ result.value = request.status
    /\ (Constructed /\ result.outcome = "thrown") =>
          /\ result.call = "submitCommandBuffers"
          /\ request.api = "vkQueueSubmit"
          /\ request.status # VK_SUCCESS

\* C6 witness: a present request answered VK_ERROR_DEVICE_LOST; the call
\* returned it and the slot has advanced.
C6_Witness ==
    /\ request.api = "vkQueuePresentKHR"
    /\ request.status = VK_ERROR_DEVICE_LOST
    /\ result.outcome = "returned"
    /\ presented = 1
    /\ currentFrame = 1

InCtor == pc \in {"init", "createSyncObjects", "release", "return"}

\* C7: constructed with a previous instance, the creation request carries
\* that instance's chain handle (the null handle if there is none); the
\* previous instance is alive throughout the construction; and the
\* constructed instance holds no reference to it.
C7_PreviousUsedThenDropped ==
    /\ (InCtor /\ createInfo.requested) =>
          createInfo.oldSwapchain =
              IF previous = "previous" THEN prevInst.swapchain ELSE VK_NULL_HANDLE
    /\ (InCtor /\ previous = "previous") =>
          /\ prevInst.alive
          /\ prevInst.swapchain # VK_NULL_HANDLE
    /\ Constructed => oldSwapchain = "nullptr"

\* C7 witness: an instance built from a previous one is in use, its request
\* carried the previous handle, and the previous instance has been destroyed.
C7_Witness ==
    /\ pc = "idle"
    /\ recreated = 1
    /\ createInfo.oldSwapchain # VK_NULL_HANDLE
    /\ createInfo.oldSwapchain # swapchain
    /\ ~prevInst.alive

\* C8: right after construction every in-flight fence is signaled and the
\* fence table has one entry per image, all none; an acquire on a slot no
\* submit has used finds its fence signaled, and a submit on an image no
\* submit has targeted finds no fence to wait for.
C8_FirstWaitsDoNotBlock ==
    /\ JustConstructed =>
          /\ Len(inFlightFences) = MAX_FRAMES_IN_FLIGHT
          /\ \A i \in Slots : At(inFlightFences, i) # VK_NULL_HANDLE
                              /\ fences[At(inFlightFences, i)]
          /\ Len(imagesInFlight) = imageCount
          /\ \A i \in Images : At(imagesInFlight, i) = VK_NULL_HANDLE
    /\ (pc = "acquire_wait" /\ currentFrame \notin used.slots) =>
          fences[At(inFlightFences, currentFrame)]
    /\ (pc = "submit_wait" /\ imageIndex \notin used.images) =>
          At(imagesInFlight, imageIndex) = VK_NULL_HANDLE

\* C8 witness: the first acquire on slot 1, after a frame on slot 0 whose
\* batch is still running, is at its wait with its fence signaled.
C8_Witness ==
    /\ pc = "acquire_wait"
    /\ currentFrame = 1
    /\ used.slots = {0}
    /\ ~fences[At(inFlightFences, 0)]
    /\ fences[At(inFlightFences, 1)]

\* C9: the image count requested at chain creation is minImageCount + 1
\* without a declared maximum (maxImageCount = 0), else the smaller of
\* minImageCount + 1 and maxImageCount.
C9_RequestedImageCount ==
    createInfo.requested =>
        LET c == device.capabilities IN
        /\ c.maxImageCount = 0 => createInfo.minImageCount = c.minImageCount + 1
        /\ c.maxImageCount > 0 =>
              /\ createInfo.minImageCount = Min(c.minImageCount + 1, c.maxImageCount)
              /\ createInfo.minImageCount <= c.maxImageCount

\* C9 witness: the declared maximum is below minImageCount + 1 and was requested.
C9_Witness ==
    /\ createInfo.requested
    /\ device.capabilities.maxImageCount > 0
    /\ device.capabilities.minImageCount + 1 > device.capabilities.maxImageCount
    /\ createInfo.minImageCount = device.capabilities.maxImageCount

PreferredFormat == SurfaceFormat(VK_FORMAT_B8G8R8A8_SRGB, VK_COLOR_SPACE_SRGB_NONLINEAR_KHR)
ChosenFormat == SurfaceFormat(createInfo.imageFormat, createInfo.imageColorSpace)

\* C10: the surface format chosen for the chain is the preferred pair if
\* the device's list holds it at any position, else the first of the list.
C10_SurfaceFormatChosen ==
    createInfo.requested =>
        /\ ChosenFormat =
              IF \E k \in 1..Len(device.formats) : device.formats[k] = PreferredFormat
              THEN PreferredFormat
              ELSE device.formats[1]
        /\ imageFormat = ChosenFormat.format

\* C10 witness: the preferred pair is the last of three formats and was chosen.
C10_Witness ==
    /\ createInfo.requested
    /\ Len(device.formats) = 3
    /\ device.formats[3] = PreferredFormat
    /\ device.formats[1] # PreferredFormat
    /\ device.formats[2] # PreferredFormat
    /\ ChosenFormat = PreferredFormat

\* C11: the present mode requested at chain creation is immediate if the
\* device's list holds immediate at any position, and FIFO otherwise (also
\* for the empty list and for lists holding mailbox); mailbox is never
\* requested.
C11_PresentModeChosen ==
    createInfo.requested =>
        /\ createInfo.presentMode =
              IF VK_PRESENT_MODE_IMMEDIATE_KHR \in
                     {device.presentModes[k] : k \in DOMAIN device.presentModes}
              THEN VK_PRESENT_MODE_IMMEDIATE_KHR
              ELSE VK_PRESENT_MODE_FIFO_KHR
        /\ createInfo.presentMode # VK_PRESENT_MODE_MAILBOX_KHR

\* C11 witness: mailbox precedes immediate in the list; immediate was requested.
C11_Witness ==
    /\ createInfo.requested
    /\ device.presentModes = <<VK_PRESENT_MODE_MAILBOX_KHR, VK_PRESENT_MODE_IMMEDIATE_KHR>>
    /\ createInfo.presentMode = VK_PRESENT_MODE_IMMEDIATE_KHR

\* std::max(lo, std::min(hi, x)): the lower limit wins
Clamped(x, lo, hi) ==
    LET capped == IF x < hi THEN x ELSE hi
    IN  IF capped < lo THEN lo ELSE capped

\* C12: with a defined current extent the chain's extent is that extent
\* whatever the window extent; with the UINT32_MAX sentinel as its width it
\* is the window extent clamped per axis into [minImageExtent,
\* maxImageExtent], so both components lie in that range.
C12_ExtentChosen ==
    createInfo.requested =>
        LET c == device.capabilities IN
        /\ createInfo.imageExtent = extent
        /\ c.currentExtent.width # UINT32_MAX => extent = c.currentExtent
        /\ c.currentExtent.width = UINT32_MAX =>
              /\ extent.width = Clamped(windowExtent.width, c.minImageExtent.width,
                                        c.maxImageExtent.width)
              /\ extent.height = Clamped(windowExtent.height, c.minImageExtent.height,
                                         c.maxImageExtent.height)
              /\ extent.width \in c.minImageExtent.width..c.maxImageExtent.width
              /\ extent.height \in c.minImageExtent.height..c.maxImageExtent.height

\* C12 witness: the sentinel, a window too wide and too low: the width is
\* clamped down to the maximum and the height up to the minimum.
C12_Witness ==
    /\ createInfo.requested
    /\ device.capabilities.currentExtent.width = UINT32_MAX
    /\ windowExtent.width > device.capabilities.maxImageExtent.width
    /\ windowExtent.height < device.capabilities.minImageExtent.height
    /\ extent = Extent2D(device.capabilities.maxImageExtent.width,
                         device.capabilities.minImageExtent.height)

\* C13: after construction imageCount is the number of images read back
\* from the presentation subsystem (at least the requested count: at least
\* 3 for minImageCount = 2 and maxImageCount = 0), and the same number is
\* the number of image handles given to the Attachment, the Attachment's
\* properties.imageCount, and the size of the per-image fence table.
C13_ImageCountEverywhere ==
    (JustConstructed /\ createInfo.requested) =>
        /\ imageCount = createInfo.minImageCount + device.extraImages
        /\ imageCount >= createInfo.minImageCount
        /\ (device.capabilities.minImageCount = 2 /\ device.capabilities.maxImageCount = 0)
              => imageCount >= 3
        /\ swapchainAttachment.present
        /\ swapchainAttachment.images = imageCount
        /\ swapchainAttachment.props.imageCount = imageCount
        /\ Len(imagesInFlight) = imageCount

\* the running member call makes its next call, `api`
StepTo(api) == request' # request /\ request'.api = api

\* C14: the calls of one submitCommandBuffers come in one order only: the
\* wait for the image's recorded fence (if there is one), the recording of
\* the slot's fence for the image, the reset of the slot's fence, the queue
\* submission (waiting on the slot's image-available semaphore, signaling
\* the slot's fence and render-finished semaphore), the present request
\* (waiting on that render-finished semaphore), and only then the advance
\* of currentFrame; all of them use the slot current on entry.
C14_SubmitStepOrder ==
    [][/\ StepTo("imagesInFlight") =>
            /\ IF RecordedFence = VK_NULL_HANDLE
               THEN request.api = "none"
               ELSE /\ request.api = "vkWaitForFences"
                    /\ request.fence = RecordedFence
            /\ request'.fence = FenceHandle(currentFrame)
            /\ At(imagesInFlight', imageIndex) = FenceHandle(currentFrame)
       /\ StepTo("vkResetFences") =>
            /\ request.api = "imagesInFlight"
            /\ request'.fence = request.fence
            /\ request'.fence = FenceHandle(currentFrame)
            /\ ~fences'[FenceHandle(currentFrame)]
       /\ StepTo("vkQueueSubmit") =>
            /\ request.api = "vkResetFences"
            /\ request'.fence = request.fence
            /\ request'.wait = ImageAvailableHandle(currentFrame)
            /\ request'.signal = RenderFinishedHandle(currentFrame)
       /\ StepTo("vkQueuePresentKHR") =>
            /\ request.api = "vkQueueSubmit"
            /\ request.status = VK_SUCCESS
            /\ request'.wait = request.signal
            /\ request'.image = request.image
            /\ currentFrame' = (currentFrame + 1) % MAX_FRAMES_IN_FLIGHT
       /\ currentFrame' # currentFrame => StepTo("vkQueuePresentKHR")
       /\ (request.api \in {"imagesInFlight", "vkResetFences"} /\ request' # request) =>
            request'.api \in {"vkResetFences", "vkQueueSubmit"}]_vars

\* C14 witness: the second submit, on slot 1, had to wait for the fence of
\* the first (same image), and has made its present request with the
\* render-finished semaphore of slot 1.
C14_Witness ==
    /\ request.api = "vkQueuePresentKHR"
    /\ presented = 2
    /\ currentFrame = 0
    /\ request.wait = RenderFinishedHandle(1)
    /\ At(imagesInFlight, imageIndex) = FenceHandle(1)
    /\ used.images = {imageIndex}

\* a batch is handed to the graphics queue in this step
QueueSubmitted == Len(batches') > Len(batches)

\* C15: in the acquire/submit loop, with any image indices and batches
\* completing in any order, when a batch for image i is handed to the
\* graphics queue every batch handed over earlier for image i has
\* completed.
C15_ImageBatchesComplete ==
    [][QueueSubmitted =>
          \A k \in 1..Len(batches) : batches[k].image = imageIndex => batches[k].done]_vars

\* the frames in flight: the batches handed to the graphics queue whose
\* fence has not yet been signaled
FramesInFlight == {k \in 1..Len(batches) : ~batches[k].done}

\* C16: in the acquire/submit loop there are never more than
\* MAX_FRAMES_IN_FLIGHT frames in flight.
C16_FramesInFlightBounded == Cardinality(FramesInFlight) <= MAX_FRAMES_IN_FLIGHT

InCall == pc \in {"acquire_wait", "acquire_request", "submit_wait", "submit_record",
                  "submit_reset", "submit_queue", "submit_present"}

\* the fence the running call is blocked on, if it is blocked
BlockingFence ==
    IF pc = "acquire_wait" /\ ~fences[At(inFlightFences, currentFrame)]
    THEN At(inFlightFences, currentFrame)
    ELSE IF RecordedFencePending THEN RecordedFence
    ELSE VK_NULL_HANDLE

\* the GPU completes every batch that was submitted: time and again no
\* batch of the queue is left unfinished
GpuCompletesAll == []<>(\A k \in 1..Len(batches) : batches[k].done)

\* C17: in the acquire/submit loop, a call that is blocked is blocked on a
\* fence that a batch in the queue is still going to signal; and when the
\* GPU completes every batch submitted (the presentation subsystem answers
\* every acquire request by the fairness of the loop), every call returns.
C17_CallsReturn ==
    /\ [](BlockingFence # VK_NULL_HANDLE =>
            \E k \in 1..Len(batches) : batches[k].fence = BlockingFence /\ ~batches[k].done)
    /\ (GpuCompletesAll => (InCall ~> pc = "idle"))

\* C17 witness: the loop has run all its frames and the last submit has returned.
C17_Witness ==
    /\ pc = "idle"
    /\ presented = MaxLoopFrames
    /\ result.call = "submitCommandBuffers"
    /\ result.outcome = "returned"
    /\ Cardinality(used.images) > 1

\* some batch in the queue is still going to signal fence f
PendingOn(f) == \E k \in 1..Len(batches) : batches[k].fence = f /\ ~batches[k].done

\* C18: in the acquire/submit loop, when submitCommandBuffers resets the
\* current slot's fence the fence is signaled and no batch is pending on
\* it, and none is when the fence is handed to the queue submission.
C18_FenceIdleAtReset ==
    [][/\ StepTo("vkResetFences") =>
            /\ request'.fence = At(inFlightFences, currentFrame)
            /\ fences[At(inFlightFences, currentFrame)]
            /\ ~PendingOn(At(inFlightFences, currentFrame))
       /\ StepTo("vkQueueSubmit") => ~PendingOn(request'.fence)]_vars

\* batch k completes in this step, signaling its render-finished semaphore
Completes(k) == k \in 1..Len(batches) /\ ~batches[k].done
                /\ Len(batches') = Len(batches) /\ batches'[k].done

\* C19: in the acquire/submit loop no semaphore is signaled while an
\* earlier signal of it has not been consumed: a successful acquire finds
\* the slot's image-available semaphore unsignaled with no batch left
\* waiting on it, and a completing batch finds its render-finished
\* semaphore unsignaled (the present request of the slot's previous frame
\* has consumed it).
C19_NoSignalWhilePending ==
    [][/\ (StepTo("vkAcquireNextImageKHR") /\ request'.status = VK_SUCCESS) =>
            /\ ~semaphores[request'.signal]
            /\ \A k \in 1..Len(batches) :
                  batches[k].wait = request'.signal => batches[k].done
       /\ \A k \in 1..MaxLoopFrames :
            Completes(k) => ~semaphores[batches[k].signal]]_vars

\* C20: a failed graphics-queue submission ends submitCommandBuffers with
\* an exception: no present request follows it, and currentFrame stays as
\* it is.
C20_QueueSubmitFailure ==
    [][/\ (StepTo("vkQueueSubmit") /\ request'.status # VK_SUCCESS) =>
            /\ pc' = "idle"
            /\ result'.call = "submitCommandBuffers"
            /\ result'.outcome = "thrown"
            /\ currentFrame' = currentFrame
            /\ presented' = presented
            /\ batches' = batches
       /\ StepTo("vkQueuePresentKHR") =>
            request.api = "vkQueueSubmit" /\ request.status = VK_SUCCESS]_vars

\* C20 witness: the second submit, on slot 1, has failed at its queue
\* submission: the slot is still 1 and nothing was presented for it.
C20_Witness ==
    /\ pc = "idle"
    /\ result.call = "submitCommandBuffers"
    /\ result.outcome = "thrown"
    /\ request.api = "vkQueueSubmit"
    /\ request.status = VK_ERROR_DEVICE_LOST
    /\ presented = 1
    /\ currentFrame = 1
====
